---- MODULE Spec2Model ----
(***************************************************************************)
(* go-adsb-console: the position store (aircraft.go), the monitor loop     *)
(* that merges and purges snapshots (main.go, startMonitor) and the        *)
(* updater loop that publishes modified entries (updater.go,               *)
(* startUpdater).  The two loops are goroutines that share the Store.      *)
(*                                                                         *)
(* Strings are sequences of one-character strings, so that                 *)
(* strings.TrimSpace is computed and not assumed.  The Seen age and        *)
(* maxAge are counted in half seconds, so that the truncation of           *)
(* time.Duration(float64) to whole seconds is computed.                    *)
(*                                                                         *)
(* The decoded Scan is an input: its length is drawn when the file is      *)
(* decoded and each record when updateAircraft reaches it, since nothing   *)
(* reads a record earlier.  The snapshot file is read only by the stat,    *)
(* open and decode of a tick, so it is rewritten or removed while the      *)
(* monitor waits in its select: a rewrite during a cycle is observed as    *)
(* one made right after it.                                                *)
(***************************************************************************)
EXTENDS Integers, Sequences, FiniteSets, TLC

VARIABLES
    store,          \* Store.aircraft: map[string]AircraftPos
    lock,           \* Store.lock: "free", "monitor" or "updater"
    ipc,            \* monitor goroutine: position in startMonitor's loop
    scanLen,        \* monitor: len(s.Aircraft) of the decoded Scan
    scan,           \* monitor: s.Aircraft[0..i], as the slice holds them now (see Past)
    idx,            \* monitor: updateAircraft's loop index i
    decErr,         \* monitor: err of os.Open / dec.Decode was not nil
    ptodo,          \* monitor: keys purgeAircraft's range has still to produce
    lastModified,   \* monitor: the watermark
    ppc,            \* updater goroutine: position in startUpdater's loop
    v,              \* updater: the range variable (a copy of the map value)
    todo,           \* updater: keys the range must still produce
    maybe,          \* updater: keys created during the range (produced or skipped)
    fileExists,     \* the snapshot file can be stat'ed
    fileMod,        \* the snapshot file's modification time
    cancelled,      \* ctx.Done() is closed
    crashed,        \* the runtime ended the process (fatal error)
    pubStat,        \* history: per key, outcome of the last Publish of the stored record
    sent,           \* history: the Flights handed to the sink since the tick started
    call,           \* a direct call of a function: its name and arguments
    ret             \* the value that call returned

vars == <<store, lock, ipc, scanLen, scan, idx, decErr, ptodo, lastModified, ppc, v,
          todo, maybe, fileExists, fileMod, cancelled, crashed, pubStat, sent, call, ret>>

ingestVars == <<ipc, scanLen, scan, idx, decErr, ptodo, lastModified>>
updaterVars == <<ppc, v, todo, maybe>>
envVars == <<fileExists, fileMod, cancelled>>
callVars == <<call, ret>>

----------------------------------------------------------------------------
(* Bounds of the model *)

MaxScan == 2        \* records in one snapshot
MaxLat == 2         \* latitudes 0..MaxLat
MaxLon == 1         \* longitudes 0..MaxLon
MaxAge == 2         \* maxAge, in half seconds
MaxSeen == 4        \* Seen ages MaxAge..MaxSeen, in half seconds
MaxTime == 2        \* modification times 0..MaxTime

StartTime == 0      \* time.Now() when the monitor goroutine starts

SP == " "
Flights == {<<>>, <<SP>>, <<"A", SP>>}
Station == "station"

----------------------------------------------------------------------------
(* aircraft.go *)

RECURSIVE TrimLeft(_)
TrimLeft(s) == IF s # <<>> /\ Head(s) = SP THEN TrimLeft(Tail(s)) ELSE s

RECURSIVE TrimRight(_)
TrimRight(s) ==
    IF s # <<>> /\ s[Len(s)] = SP THEN TrimRight(SubSeq(s, 1, Len(s) - 1)) ELSE s

TrimSpace(s) == TrimRight(TrimLeft(s))

\* The zero value of Aircraft (the fields the store logic reads or writes,
\* and Messages for the telemetry it carries along).
ZeroAircraft ==
    [Flight |-> <<>>, Lat |-> 0, Lon |-> 0, AltGeom |-> 0, AltBaro |-> 0,
     Track |-> 0, Seen |-> 0, Messages |-> 0, Timestamp |-> 0,
     Type |-> "", StationName |-> ""]

ZeroPos == [modified |-> FALSE, aircraft |-> ZeroAircraft]

\* Records a decoded snapshot can hold.
ScanRecords ==
    {[ZeroAircraft EXCEPT !.Flight = f, !.Lat = la, !.Lon = lo, !.Seen = se] :
        f \in Flights, la \in 0..MaxLat, lo \in 0..MaxLon, se \in {MaxAge, MaxSeen}}

Keys == {TrimSpace(f) : f \in Flights}

\* time.Now().UnixNano() / 1000 at ingest: some non-zero time.
Now == 7

\* A comparison that leaves the track out, for comparison.
HasMovedNoTrack(a1, a2) ==
    IF a1.Flight = <<>> \/ a2.Flight = <<>> THEN [moved |-> FALSE, err |-> TRUE]
    ELSE IF a1.Flight # a2.Flight THEN [moved |-> FALSE, err |-> TRUE]
    ELSE [moved |-> ~(a1.Lon = a2.Lon /\ a1.Lat = a2.Lat /\ a1.AltGeom = a2.AltGeom
                      /\ a1.AltBaro = a2.AltBaro),
          err |-> FALSE]

\* A comparison that does not test the Flights, for comparison.
HasMovedAnyFlight(a1, a2) ==
    [moved |-> ~(a1.Lon = a2.Lon /\ a1.Lat = a2.Lat /\ a1.AltGeom = a2.AltGeom
                 /\ a1.AltBaro = a2.AltBaro /\ a1.Track = a2.Track),
     err |-> FALSE]

HasMoved(a1, a2) ==
    IF a1.Flight = <<>> \/ a2.Flight = <<>> THEN [moved |-> FALSE, err |-> TRUE]
    ELSE IF a1.Flight # a2.Flight THEN [moved |-> FALSE, err |-> TRUE]
    ELSE [moved |-> ~(a1.Lon = a2.Lon /\ a1.Lat = a2.Lat /\ a1.AltGeom = a2.AltGeom
                      /\ a1.AltBaro = a2.AltBaro /\ a1.Track = a2.Track),
          err |-> FALSE]

\* updateAircraft's admission test, on the record as decoded.
Skipped(a) == a.Flight = <<>> \/ a.Lon = 0 \/ a.Lat = 0

\* A cleaning that stamps the ingest time on every record, for comparison.
NormalizeStampAll(a) ==
    [a EXCEPT !.Flight = TrimSpace(a.Flight),
              !.Type = "AIRCRAFT",
              !.StationName = Station,
              !.Timestamp = Now]

\* "Update and clean the aircraft data", written into s.Aircraft[i].
Normalize(a) ==
    [a EXCEPT !.Flight = TrimSpace(a.Flight),
              !.Type = "AIRCRAFT",
              !.StationName = Station,
              !.Timestamp = IF a.Timestamp = 0 THEN Now ELSE a.Timestamp]

\* a2, ok := store.aircraft[key]
Lookup(m, k) ==
    IF k \in DOMAIN m THEN [ok |-> TRUE, a2 |-> m[k]] ELSE [ok |-> FALSE, a2 |-> ZeroPos]

\* A test that takes HasMoved's result without the lookup's ok, for comparison.
UnmovedOrError(m, a) ==
    LET l == Lookup(m, a.Flight)
    IN  ~HasMoved(a, l.a2.aircraft).moved

\* A test that never passes, for comparison.
UnmovedNever(m, a) == FALSE

\* merge leaves the entry alone
Unmoved(m, a) ==
    LET l == Lookup(m, a.Flight)
    IN  l.ok /\ ~HasMoved(a, l.a2.aircraft).moved

MapSet(m, k, e) == [x \in DOMAIN m \cup {k} |-> IF x = k THEN e ELSE m[x]]
MapDelete(m, k) == [x \in DOMAIN m \ {k} |-> m[x]]

\* lastSeen := time.Second * time.Duration(v.aircraft.Seen), in half seconds
LastSeen(a) == 2 * (a.Seen \div 2)

\* seen[a.Flight] = true for every record of the slice
SeenSet(s) == {s[j].Flight : j \in 1..Len(s)}

\* What is kept of s.Aircraft[j] once updateAircraft has passed it: Flight,
\* which purgeAircraft reads, and Seen and Type (set by the pass for the
\* records it did not skip).  Nothing reads the other fields again.
Past(a) == [ZeroAircraft EXCEPT !.Flight = a.Flight, !.Seen = a.Seen, !.Type = a.Type]

\* A purge that tests the age only, for comparison.
PurgedByAge(k, e, seen, maxAge) == LastSeen(e.aircraft) > maxAge

\* purgeAircraft's decision for one entry
Purged(k, e, seen, maxAge) == k \notin seen \/ LastSeen(e.aircraft) > maxAge

----------------------------------------------------------------------------
EmptyMap == [k \in {} |-> ZeroPos]

\* No function is called directly: the program runs from main.
NoCall == [fn |-> "main"]
NoRet == [pending |-> TRUE]

Init ==
    /\ store = EmptyMap
    /\ lock = "free"
    /\ ipc = "idle"
    /\ scanLen = 0
    /\ scan = <<>>
    /\ idx = 0
    /\ decErr = FALSE
    /\ ptodo = {}
    /\ lastModified = StartTime
    /\ ppc = "idle"
    /\ v = ZeroPos
    /\ todo = {}
    /\ maybe = {}
    /\ fileExists \in BOOLEAN
    /\ fileMod = 0
    /\ cancelled = FALSE
    /\ crashed = FALSE
    /\ pubStat = [k \in Keys |-> "none"]
    /\ sent = {}
    /\ call = NoCall
    /\ ret = NoRet

----------------------------------------------------------------------------
(* main.go, startMonitor: the monitor goroutine *)

\* case <-ticker, os.Stat fails: log and continue
IngestStatFail ==
    /\ ~crashed /\ ipc = "idle"
    /\ ~fileExists
    /\ UNCHANGED vars

\* case <-ticker, the file is not newer than the watermark
IngestUnchanged ==
    /\ ~crashed /\ ipc = "idle"
    /\ fileExists /\ ~(fileMod > lastModified)
    /\ UNCHANGED vars

\* A tick that goes on after a failed stat, for comparison.
IngestReadNoStat ==
    /\ ~crashed /\ ipc = "idle"
    /\ fileMod > lastModified
    /\ lastModified' = fileMod
    /\ \E n \in 0..MaxScan, e \in BOOLEAN : scanLen' = n /\ decErr' = e
    /\ scan' = <<>>
    /\ idx' = 1
    /\ ipc' = "merge"
    /\ UNCHANGED <<callVars, store, lock, ptodo, updaterVars, envVars, crashed, pubStat, sent>>

\* A tick that reads the file whatever its modification time, for comparison.
IngestReadAnyTime ==
    /\ ~crashed /\ ipc = "idle"
    /\ fileExists
    /\ lastModified' = fileMod
    /\ \E n \in 0..MaxScan, e \in BOOLEAN : scanLen' = n /\ decErr' = e
    /\ scan' = <<>>
    /\ idx' = 1
    /\ ipc' = "merge"
    /\ UNCHANGED <<callVars, store, lock, ptodo, updaterVars, envVars, crashed, pubStat, sent>>

\* A tick that advances the watermark only when the decode succeeds, for
\* comparison.
IngestReadMarkOnSuccess ==
    /\ ~crashed /\ ipc = "idle"
    /\ fileExists /\ fileMod > lastModified
    /\ \E n \in 0..MaxScan, e \in BOOLEAN :
        /\ scanLen' = n /\ decErr' = e
        /\ lastModified' = IF e THEN lastModified ELSE fileMod
    /\ scan' = <<>>
    /\ idx' = 1
    /\ ipc' = "merge"
    /\ UNCHANGED <<callVars, store, lock, ptodo, updaterVars, envVars, crashed, pubStat, sent>>

\* case <-ticker, the file is newer: advance the watermark, open and decode.
\* A failed open or a syntax error leaves the Scan empty (n = 0); a type
\* error leaves it filled as far as the decoder got.  Either way err is
\* only logged and updateAircraft is called next.
IngestRead ==
    /\ ~crashed /\ ipc = "idle"
    /\ fileExists /\ fileMod > lastModified
    /\ lastModified' = fileMod
    /\ \E n \in 0..MaxScan, e \in BOOLEAN : scanLen' = n /\ decErr' = e
    /\ scan' = <<>>
    /\ idx' = 1
    /\ ipc' = "merge"
    /\ UNCHANGED <<callVars, store, lock, ptodo, updaterVars, envVars, crashed, pubStat, sent>>

\* case <-ctx.Done(): return
IngestStop ==
    /\ ~crashed /\ ipc = "idle"
    /\ cancelled
    /\ ipc' = "stopped"
    /\ UNCHANGED <<callVars, store, lock, scanLen, scan, idx, decErr, ptodo, lastModified,
                   updaterVars, envVars, crashed, pubStat, sent>>

(* aircraft.go, updateAircraft: one iteration of the loop over s.Aircraft *)

\* the record fails the admission test: continue
IngestMergeSkip ==
    /\ ~crashed /\ ipc = "merge"
    /\ idx <= scanLen
    /\ \E a \in ScanRecords :
        /\ Skipped(a)
        /\ scan' = Append(scan, Past(a))
    /\ idx' = idx + 1
    /\ UNCHANGED <<callVars, store, lock, ipc, scanLen, decErr, ptodo, lastModified,
                   updaterVars, envVars, crashed, pubStat, sent>>

\* the record is normalized in the slice; the entry exists and has not moved: continue
IngestMergeSame ==
    /\ ~crashed /\ ipc = "merge"
    /\ idx <= scanLen
    /\ \E a \in ScanRecords :
        /\ ~Skipped(a)
        /\ Unmoved(store, Normalize(a))
        /\ scan' = Append(scan, Past(Normalize(a)))
    /\ idx' = idx + 1
    /\ UNCHANGED <<callVars, store, lock, ipc, scanLen, decErr, ptodo, lastModified,
                   updaterVars, envVars, crashed, pubStat, sent>>

\* the record is normalized in the slice; it is new or has moved: go on to Lock
IngestMergeChanged ==
    /\ ~crashed /\ ipc = "merge"
    /\ idx <= scanLen
    /\ \E a \in ScanRecords :
        /\ ~Skipped(a)
        /\ ~Unmoved(store, Normalize(a))
        /\ scan' = Append(scan, Normalize(a))
    /\ ipc' = "lock"
    /\ UNCHANGED <<callVars, store, lock, scanLen, idx, decErr, ptodo, lastModified,
                   updaterVars, envVars, crashed, pubStat, sent>>

\* store.lock.Lock()
IngestLock ==
    /\ ~crashed /\ ipc = "lock"
    /\ lock = "free"
    /\ lock' = "monitor"
    /\ ipc' = "write"
    /\ UNCHANGED <<callVars, store, scanLen, scan, idx, decErr, ptodo, lastModified,
                   updaterVars, envVars, crashed, pubStat, sent>>

\* The updater's range is under way.
Ranging == ppc \in {"scan", "lock", "publish"}

\* An assignment that keeps the flag of an entry it replaces, for comparison.
StoreWriteKeepFlag(m, a) ==
    MapSet(m, a.Flight, [modified |-> Lookup(m, a.Flight).ok => m[a.Flight].modified,
                         aircraft |-> a])

\* An assignment that stores the entry found by the lookup instead of the
\* record of the slice, for comparison.
StoreWriteLookedUp(m, a) ==
    MapSet(m, a.Flight, [modified |-> TRUE, aircraft |-> Lookup(m, a.Flight).a2.aircraft])

\* store.aircraft[key] = AircraftPos{aircraft: s.Aircraft[i], modified: true}
StoreWrite(m, a) == MapSet(m, a.Flight, [modified |-> TRUE, aircraft |-> a])

\* the map assignment and store.lock.Unlock()
IngestWrite ==
    /\ ~crashed /\ ipc = "write"
    /\ store' = StoreWrite(store, scan[idx])
    /\ scan' = [scan EXCEPT ![idx] = Past(scan[idx])]
    /\ maybe' = IF Ranging /\ scan[idx].Flight \notin DOMAIN store
                THEN maybe \cup {scan[idx].Flight} ELSE maybe
    /\ pubStat' = [pubStat EXCEPT ![scan[idx].Flight] = "none"]
    /\ lock' = "free"
    /\ idx' = idx + 1
    /\ ipc' = "merge"
    /\ UNCHANGED <<callVars, scanLen, decErr, ptodo, lastModified, ppc, v, todo, envVars, crashed, sent>>

\* updateAircraft returns; purgeAircraft builds seen and starts its range
IngestMergeEnd ==
    /\ ~crashed /\ ipc = "merge"
    /\ idx > scanLen
    /\ ptodo' = DOMAIN store
    /\ ipc' = "purge"
    /\ UNCHANGED <<callVars, store, lock, scanLen, scan, idx, decErr, lastModified,
                   updaterVars, envVars, crashed, pubStat, sent>>

(* aircraft.go, purgeAircraft: one iteration of the range over store.aircraft *)

IngestPurgeDelete ==
    /\ ~crashed /\ ipc = "purge"
    /\ \E k \in ptodo :
        /\ Purged(k, store[k], SeenSet(scan), MaxAge)
        /\ store' = MapDelete(store, k)
        /\ ptodo' = ptodo \ {k}
        /\ todo' = todo \ {k}
        /\ maybe' = maybe \ {k}
        /\ pubStat' = [pubStat EXCEPT ![k] = "none"]
    /\ UNCHANGED <<callVars, lock, ipc, scanLen, scan, idx, decErr, lastModified, ppc, v, envVars,
                   crashed, sent>>

IngestPurgeKeep ==
    /\ ~crashed /\ ipc = "purge"
    /\ \E k \in ptodo :
        /\ ~Purged(k, store[k], SeenSet(scan), MaxAge)
        /\ ptodo' = ptodo \ {k}
    /\ UNCHANGED <<callVars, store, lock, ipc, scanLen, scan, idx, decErr, lastModified,
                   updaterVars, envVars, crashed, pubStat, sent>>

\* the range is exhausted and purgeAircraft returns: back to the select;
\* scan and err go out of scope
IngestPurgeEnd ==
    /\ ~crashed /\ ipc = "purge"
    /\ ptodo = {}
    /\ ipc' = "idle"
    /\ scanLen' = 0
    /\ scan' = <<>>
    /\ idx' = 0
    /\ decErr' = FALSE
    /\ UNCHANGED <<callVars, store, lock, ptodo, lastModified, updaterVars, envVars, crashed, pubStat, sent>>

----------------------------------------------------------------------------
(* updater.go, startUpdater: the updater goroutine *)

\* case <-ticker.C: the range over store.aircraft starts
PubTick ==
    /\ ~crashed /\ ppc = "idle"
    /\ todo' = DOMAIN store
    /\ maybe' = {}
    /\ sent' = {}
    /\ ppc' = "scan"
    /\ UNCHANGED <<callVars, store, lock, ingestVars, v, envVars, crashed, pubStat>>

\* A select without the ctx.Done() case, for comparison.
PubStopNoCase ==
    /\ FALSE
    /\ UNCHANGED vars

\* case <-ctx.Done(): return
PubStop ==
    /\ ~crashed /\ ppc = "idle"
    /\ cancelled
    /\ ppc' = "stopped"
    /\ UNCHANGED <<callVars, store, lock, ingestVars, v, todo, maybe, envVars, crashed, pubStat, sent>>

\* the range produces the next entry: v is a copy of the map value.
\* An unmodified entry is passed over; for a modified one the message is
\* built from v and the loop goes on to Lock.
PubNext ==
    /\ ~crashed /\ ppc = "scan"
    /\ \E k \in todo \cup maybe :
        /\ todo' = todo \ {k}
        /\ maybe' = maybe \ {k}
        /\ IF store[k].modified = FALSE
           THEN v' = ZeroPos /\ ppc' = "scan"
           ELSE v' = store[k] /\ ppc' = "lock"
    /\ UNCHANGED <<callVars, store, lock, ingestVars, envVars, crashed, pubStat, sent>>

\* the range is exhausted (entries created meanwhile may be skipped)
PubEnd ==
    /\ ~crashed /\ ppc = "scan"
    /\ todo = {}
    /\ maybe' = {}
    /\ sent' = {}
    /\ ppc' = "idle"
    /\ UNCHANGED <<callVars, store, lock, ingestVars, v, todo, envVars, crashed, pubStat>>

\* store.lock.Lock()
PubLock ==
    /\ ~crashed /\ ppc = "lock"
    /\ lock = "free"
    /\ lock' = "updater"
    /\ ppc' = "publish"
    /\ UNCHANGED <<callVars, store, ingestVars, v, todo, maybe, envVars, crashed, pubStat, sent>>

\* The stored record is the one the message was built from (used for the
\* history variable only).
Current(m, e) == e.aircraft.Flight \in DOMAIN m /\ m[e.aircraft.Flight].aircraft = e.aircraft

\* What the assignment would do if v referred to the map's element, for
\* comparison.
StoreAfterClearByRef(m, e) ==
    IF e.aircraft.Flight \in DOMAIN m
    THEN [m EXCEPT ![e.aircraft.Flight].modified = FALSE]
    ELSE m

\* An updater that removes the entry it has published, for comparison.
StoreAfterClearDrop(m, e) == MapDelete(m, e.aircraft.Flight)

\* What v.modified = false does to the map: v is the range's copy of the
\* value, so nothing.
StoreAfterClear(m, e) == m

\* A Publish path that returns to the range without store.lock.Unlock(),
\* for comparison.
PubPublishNoUnlock ==
    /\ ~crashed /\ ppc = "publish"
    /\ \E ok \in BOOLEAN :
        pubStat' = IF Current(store, v)
                   THEN [pubStat EXCEPT ![v.aircraft.Flight] = IF ok THEN "ok" ELSE "fail"]
                   ELSE pubStat
    /\ sent' = sent \cup {v.aircraft.Flight}
    /\ store' = StoreAfterClear(store, v)
    /\ v' = ZeroPos
    /\ ppc' = "scan"
    /\ UNCHANGED <<callVars, lock, ingestVars, todo, maybe, envVars, crashed>>

\* err = rmqCh.Publish(...): the sink accepts (ok) or fails, and a failure is
\* only logged; v.modified = false; store.lock.Unlock(); the loop body ends
\* and v goes out of scope.
PubPublish ==
    /\ ~crashed /\ ppc = "publish"
    /\ \E ok \in BOOLEAN :
        pubStat' = IF Current(store, v)
                   THEN [pubStat EXCEPT ![v.aircraft.Flight] = IF ok THEN "ok" ELSE "fail"]
                   ELSE pubStat
    /\ sent' = sent \cup {v.aircraft.Flight}
    /\ store' = StoreAfterClear(store, v)
    /\ v' = ZeroPos
    /\ lock' = "free"
    /\ ppc' = "scan"
    /\ UNCHANGED <<callVars, ingestVars, todo, maybe, envVars, crashed>>

----------------------------------------------------------------------------
(* The environment *)

\* The monitor is not inside the stat, open and decode of a tick.
NotReading == ipc \in {"idle", "unstarted"}

\* the receiver rewrites the snapshot file
FileWrite ==
    /\ ~crashed /\ NotReading
    /\ \E t \in (fileMod + 1)..MaxTime : fileMod' = t
    /\ fileExists' = TRUE
    /\ UNCHANGED <<callVars, store, lock, ingestVars, updaterVars, cancelled, crashed, pubStat, sent>>

FileRemove ==
    /\ ~crashed /\ NotReading
    /\ fileExists
    /\ fileExists' = FALSE
    /\ UNCHANGED <<callVars, store, lock, ingestVars, updaterVars, fileMod, cancelled, crashed, pubStat, sent>>

\* cancel()
Cancel ==
    /\ ~crashed
    /\ ~cancelled
    /\ cancelled' = TRUE
    /\ UNCHANGED <<callVars, store, lock, ingestVars, updaterVars, fileExists, fileMod, crashed, pubStat, sent>>

\* The monitor is inside a map assignment or a delete of the purge.
MapWriting ==
    \/ ipc = "write"
    \/ ipc = "purge" /\ \E k \in ptodo : Purged(k, store[k], SeenSet(scan), MaxAge)

\* The updater's range runs without the lock while the monitor assigns to
\* or deletes from the map: the runtime may detect it and end the process
\* ("fatal error: concurrent map iteration and map write").
MapRaceFatal ==
    /\ ~crashed
    /\ ppc = "scan"
    /\ MapWriting
    /\ crashed' = TRUE
    /\ UNCHANGED <<callVars, store, lock, ingestVars, updaterVars, envVars, pubStat, sent>>

Next ==
    \/ IngestStatFail \/ IngestUnchanged \/ IngestRead \/ IngestStop
    \/ IngestMergeSkip \/ IngestMergeSame \/ IngestMergeChanged
    \/ IngestLock \/ IngestWrite \/ IngestMergeEnd
    \/ IngestPurgeDelete \/ IngestPurgeKeep \/ IngestPurgeEnd
    \/ PubTick \/ PubStop \/ PubNext \/ PubEnd
    \/ PubLock \/ PubPublish
    \/ FileWrite \/ FileRemove \/ Cancel \/ MapRaceFatal

Spec == Init /\ [][Next]_vars

----------------------------------------------------------------------------
(* Scheduling *)

\* The sink accepts the message the updater publishes for key k.
PubAccept(k) ==
    /\ PubPublish
    /\ v.aircraft.Flight = k
    /\ Current(store, v) => pubStat'[k] = "ok"

\* A goroutine that can take a step takes one, and a tick arrives while a
\* loop waits in its select.
MonitorStep ==
    \/ IngestRead \/ IngestMergeSkip \/ IngestMergeSame \/ IngestMergeChanged
    \/ IngestLock \/ IngestWrite \/ IngestMergeEnd
    \/ IngestPurgeDelete \/ IngestPurgeKeep \/ IngestPurgeEnd

UpdaterStep == PubTick \/ PubNext \/ PubEnd \/ PubLock \/ PubPublish

\* The goroutines are scheduled fairly; sync.Mutex hands the lock to a
\* goroutine that has waited for it (starvation mode), so a Lock that can
\* succeed again and again succeeds in the end; a select with several ready
\* cases chooses among them at random, so a case that is ready again and
\* again is chosen in the end.
Scheduling ==
    /\ WF_vars(MonitorStep)
    /\ WF_vars(UpdaterStep)
    /\ SF_vars(IngestLock)
    /\ SF_vars(PubLock)
    /\ SF_vars(IngestStop)
    /\ SF_vars(PubStop)

\* A sink that is tried again and again accepts in the end.
SinkAccepts == \A k \in Keys : SF_vars(PubAccept(k))

Fairness == Scheduling /\ SinkAccepts

\* The program started late: the snapshot file is older than the monitor's
\* first watermark, and only a rewrite at MaxTime is newer.
InitLate ==
    /\ store = EmptyMap
    /\ lock = "free"
    /\ ipc = "idle"
    /\ scanLen = 0
    /\ scan = <<>>
    /\ idx = 0
    /\ decErr = FALSE
    /\ ptodo = {}
    /\ lastModified = MaxTime - 1
    /\ ppc = "idle"
    /\ v = ZeroPos
    /\ todo = {}
    /\ maybe = {}
    /\ fileExists \in BOOLEAN
    /\ fileMod = 0
    /\ cancelled = FALSE
    /\ crashed = FALSE
    /\ pubStat = [k \in Keys |-> "none"]
    /\ sent = {}
    /\ call = NoCall
    /\ ret = NoRet

FairSpec == InitLate /\ [][Next]_vars /\ Fairness

SchedSpec == InitLate /\ [][Next]_vars /\ Scheduling

----------------------------------------------------------------------------
(* HasMoved called directly, as TestHasMoved does *)

MaxField == 1       \* values 0..MaxField of a numeric field of an argument

CallFlights == {<<>>, <<"A">>, <<"B">>}

CallRecords ==
    {[ZeroAircraft EXCEPT !.Flight = f, !.Lat = la, !.Lon = lo, !.AltGeom = ag,
                          !.AltBaro = ab, !.Track = tr, !.Seen = se, !.Messages = me] :
        f \in CallFlights, la \in 0..MaxField, lo \in 0..MaxField, ag \in 0..MaxField,
        ab \in 0..MaxField, tr \in 0..MaxField, se \in 0..MaxField, me \in 0..MaxField}

InitHasMoved ==
    /\ store = EmptyMap
    /\ lock = "free"
    /\ ipc = "idle"
    /\ scanLen = 0
    /\ scan = <<>>
    /\ idx = 0
    /\ decErr = FALSE
    /\ ptodo = {}
    /\ lastModified = StartTime
    /\ ppc = "idle"
    /\ v = ZeroPos
    /\ todo = {}
    /\ maybe = {}
    /\ fileExists = FALSE
    /\ fileMod = 0
    /\ cancelled = FALSE
    /\ crashed = FALSE
    /\ pubStat = [k \in Keys |-> "none"]
    /\ sent = {}
    /\ call \in {[fn |-> "HasMoved", a1 |-> x, a2 |-> y] : x \in CallRecords, y \in CallRecords}
    /\ ret = NoRet

\* got, err := HasMoved(a1, a2)
CallHasMoved ==
    /\ call.fn = "HasMoved"
    /\ ret = NoRet
    /\ ret' = HasMoved(call.a1, call.a2)
    /\ UNCHANGED <<store, lock, ingestVars, updaterVars, envVars, crashed, pubStat, sent, call>>

NextHasMoved == CallHasMoved

SpecHasMoved == InitHasMoved /\ [][NextHasMoved]_vars

----------------------------------------------------------------------------
(* updateAircraft called directly, as TestUpdateAircraft does: the store is *)
(* set up by the caller, so it can hold entries that are not modified, and  *)
(* no other goroutine runs.                                                 *)

\* One iteration of updateAircraft's loop, on the store.
MergeOne(m, a) ==
    IF Skipped(a) THEN m
    ELSE IF Unmoved(m, Normalize(a)) THEN m
    ELSE StoreWrite(m, Normalize(a))

\* The store after updateAircraft(s, store, station).
RECURSIVE updateAircraft(_, _)
updateAircraft(m, s) ==
    IF s = <<>> THEN m ELSE updateAircraft(MergeOne(m, Head(s)), Tail(s))

\* The caller's slice after the call: the admitted records are normalized in place.
SliceAfter(s) == [j \in 1..Len(s) |-> IF Skipped(s[j]) THEN s[j] ELSE Normalize(s[j])]

\* Entries a caller can put under key k.
EntriesOf(k) ==
    {[modified |-> d, aircraft |-> Normalize(a)] :
        d \in BOOLEAN, a \in {x \in ScanRecords : ~Skipped(x) /\ TrimSpace(x.Flight) = k}}

\* Stores a caller can set up.
CallStores ==
    UNION {{m \in [K -> UNION {EntriesOf(k) : k \in K}] :
                \A k \in K : m[k] \in EntriesOf(k)} : K \in SUBSET Keys}

\* Slices a caller can pass.
CallScans == UNION {[1..n -> ScanRecords] : n \in 0..MaxScan}

InitUpdateAircraft ==
    /\ store \in CallStores
    /\ lock = "free"
    /\ ipc = "idle"
    /\ scanLen = 0
    /\ scan = <<>>
    /\ idx = 0
    /\ decErr = FALSE
    /\ ptodo = {}
    /\ lastModified = StartTime
    /\ ppc = "idle"
    /\ v = ZeroPos
    /\ todo = {}
    /\ maybe = {}
    /\ fileExists = FALSE
    /\ fileMod = 0
    /\ cancelled = FALSE
    /\ crashed = FALSE
    /\ pubStat = [k \in Keys |-> "none"]
    /\ sent = {}
    /\ call \in {[fn |-> "updateAircraft", s |-> x, store |-> store] : x \in CallScans}
    /\ ret = NoRet

\* updateAircraft(scan, &store, station)
CallUpdateAircraft ==
    /\ call.fn = "updateAircraft"
    /\ ret = NoRet
    /\ store' = updateAircraft(store, call.s)
    /\ ret' = [s |-> SliceAfter(call.s)]
    /\ UNCHANGED <<lock, ingestVars, updaterVars, envVars, crashed, pubStat, sent, call>>

NextUpdateAircraft == CallUpdateAircraft

SpecUpdateAircraft == InitUpdateAircraft /\ [][NextUpdateAircraft]_vars

----------------------------------------------------------------------------
(* startMonitor called directly, as TestStartMonitor does: with a store or  *)
(* with nil, and with a path at which a file may or may not exist.  The     *)
(* updater is not started.                                                  *)

InitStartMonitor ==
    /\ store = EmptyMap
    /\ lock = "free"
    /\ ipc = "unstarted"
    /\ scanLen = 0
    /\ scan = <<>>
    /\ idx = 0
    /\ decErr = FALSE
    /\ ptodo = {}
    /\ lastModified = StartTime
    /\ ppc = "unstarted"
    /\ v = ZeroPos
    /\ todo = {}
    /\ maybe = {}
    /\ fileExists \in BOOLEAN
    /\ fileMod = 0
    /\ cancelled = FALSE
    /\ crashed = FALSE
    /\ pubStat = [k \in Keys |-> "none"]
    /\ sent = {}
    /\ call \in {[fn |-> "startMonitor", store |-> x] : x \in {"nil", "store"}}
    /\ ret = NoRet

\* A startMonitor without the nil test, for comparison.
CallStartMonitorUnchecked ==
    /\ call.fn = "startMonitor"
    /\ ret = NoRet
    /\ ret' = [err |-> FALSE]
    /\ ipc' = "idle"
    /\ UNCHANGED <<store, lock, scanLen, scan, idx, decErr, ptodo, lastModified,
                   updaterVars, envVars, crashed, pubStat, sent, call>>

\* err := startMonitor(ctx, path, dur, maxAge, store, station): with nil it
\* returns an error before the goroutine is started; otherwise it starts
\* the goroutine and returns nil.
CallStartMonitor ==
    /\ call.fn = "startMonitor"
    /\ ret = NoRet
    /\ IF call.store = "nil"
       THEN ret' = [err |-> TRUE] /\ ipc' = ipc
       ELSE ret' = [err |-> FALSE] /\ ipc' = "idle"
    /\ UNCHANGED <<store, lock, scanLen, scan, idx, decErr, ptodo, lastModified,
                   updaterVars, envVars, crashed, pubStat, sent, call>>

NextStartMonitor ==
    \/ CallStartMonitor
    \/ IngestStatFail \/ IngestUnchanged \/ IngestRead \/ IngestStop
    \/ IngestMergeSkip \/ IngestMergeSame \/ IngestMergeChanged
    \/ IngestLock \/ IngestWrite \/ IngestMergeEnd
    \/ IngestPurgeDelete \/ IngestPurgeKeep \/ IngestPurgeEnd
    \/ FileWrite \/ FileRemove \/ Cancel

SpecStartMonitor == InitStartMonitor /\ [][NextStartMonitor]_vars

----------------------------------------------------------------------------
(* Properties *)

\* The identities of the snapshot's records: Flight is trimmed in place for
\* the records updateAircraft admits, and trimming is idempotent.
SnapshotIds == {TrimSpace(scan[j].Flight) : j \in 1..Len(scan)}

\* purgeAircraft's range is exhausted: the merge+purge cycle is complete.
CycleDone == ipc = "purge" /\ ptodo = {}

\* The step in which the updater hands the message built from v to the sink.
PublishStep == ppc = "publish" /\ ppc' = "scan"

\* The step in which the updater's range produces the entry for k.
Produced(k) ==
    /\ ppc = "scan"
    /\ k \in todo \cup maybe
    /\ k \notin todo' \cup maybe'
    /\ ppc' # "idle"
    /\ store' = store

\* C1: change gating.  Once the stored record of an identity has been
\* accepted by the sink, and updateAircraft has not replaced it since, no
\* later tick hands a message for that identity to the sink.
C1_ChangeGating == [][PublishStep => pubStat[v.aircraft.Flight] # "ok"]_vars

\* C2: once the sink has accepted the message for an entry, and with no
\* upsert for it since, the entry's modified flag in the store is false.
C2_ClearedInStore == \A k \in DOMAIN store : pubStat[k] = "ok" => store[k].modified = FALSE

\* An entry whose Publish returned an error is still modified in the store.
FailedStaysDirty == \A k \in DOMAIN store : pubStat[k] = "fail" => store[k].modified = TRUE

\* When the range produces an entry whose Publish failed, the updater goes on
\* to publish that entry.
FailedIsRetried ==
    \A k \in Keys : (pubStat[k] = "fail" /\ Produced(k)) => (ppc' = "lock" /\ v' = store[k])

\* C3: an entry whose Publish returned an error is still modified in the
\* store afterwards (for as long as it is stored and not replaced), and
\* whenever the range of a later tick produces it the updater goes on to
\* publish that entry again; no count of attempts enters either condition.
C3_RetryAfterFailure == [](FailedStaysDirty) /\ [][FailedIsRetried]_vars

\* C3 witness: after a failed Publish of the stored record, a later
\* iteration has produced the same entry and is about to publish it again.
C3_Witness ==
    /\ ppc = "lock"
    /\ Current(store, v)
    /\ pubStat[v.aircraft.Flight] = "fail"

\* The snapshot holds exactly one record for the identity of its j-th
\* record, and that identity is not empty.
SoleRecord(j) ==
    /\ TrimSpace(scan[j].Flight) # <<>>
    /\ \A i \in 1..Len(scan) : TrimSpace(scan[i].Flight) = TrimSpace(scan[j].Flight) => i = j

\* C4: after a merge+purge cycle no entry is left for an identity that the
\* snapshot's (only) record of it reports with Seen greater than maxAge.
C4_StaleReportedRemoved ==
    CycleDone =>
        \A j \in 1..Len(scan) :
            (SoleRecord(j) /\ scan[j].Seen > MaxAge) =>
                TrimSpace(scan[j].Flight) \notin DOMAIN store

\* C5: after purgeAircraft has run with a snapshot, every entry left in the
\* store has an identity that occurs in that snapshot.
C5_AbsentRemoved == CycleDone => DOMAIN store \subseteq SnapshotIds

\* C5 witness: the purge is complete, it has kept an entry, and the entry
\* the updater copied before the purge is gone from the store because its
\* identity is not in the snapshot.
C5_Witness ==
    /\ CycleDone
    /\ store # EmptyMap
    /\ ppc \in {"lock", "publish"}
    /\ v.aircraft.Flight \notin SnapshotIds
    /\ v.aircraft.Flight \notin DOMAIN store

\* C6: when the open or the decode of a tick fails, the cycle is abandoned
\* and the store keeps exactly the entries it held.
C6_DecodeFailureAbandons == [][decErr => store' = store]_vars

\* C7: no message is handed to the sink for a record that purge has removed
\* from the store (and that no later snapshot has inserted again).
C7_NoPublishAfterPurge == [][PublishStep => v.aircraft.Flight \in DOMAIN store]_vars

\* C8: the updater is never inside its range over the map, without the
\* lock, while the monitor is at a map assignment or inside the purge sweep.
C8_Serialized == ~(ppc = "scan" /\ lock # "updater" /\ ipc \in {"write", "purge"})

\* C9: the store lock is free whenever a Publish call is in progress.
C9_LockFreeDuringPublish == ppc = "publish" => lock = "free"

\* C10: no entry of the store has an empty identity (key or Flight, after
\* trimming), a zero latitude or a zero longitude.
C10_Admission ==
    \A k \in DOMAIN store :
        /\ TrimSpace(k) # <<>>
        /\ TrimSpace(store[k].aircraft.Flight) # <<>>
        /\ store[k].aircraft.Lat # 0
        /\ store[k].aircraft.Lon # 0

\* HasMoved has returned.
Returned == call.fn = "HasMoved" /\ ret # NoRet

\* The two arguments differ in a field HasMoved is to compare.
PositionDiffers(a1, a2) ==
    \/ a1.Lat # a2.Lat
    \/ a1.Lon # a2.Lon
    \/ a1.AltGeom # a2.AltGeom
    \/ a1.AltBaro # a2.AltBaro
    \/ a1.Track # a2.Track

\* The second argument with one of its other fields changed.
OtherFieldChanged(a) ==
    {[a EXCEPT !.Seen = x] : x \in 0..MaxField + 1}
    \cup {[a EXCEPT !.Messages = x] : x \in 0..MaxField + 1}
    \cup {[a EXCEPT !.Timestamp = x] : x \in 0..MaxField + 1}
    \cup {[a EXCEPT !.StationName = x] : x \in {"", Station}}

\* C11: for two records with the same non-empty Flight, HasMoved returns
\* true without an error exactly when Lat, Lon, AltGeom, AltBaro or Track
\* differs (so false for identical records), and the result is the same
\* when any other field of an argument is changed.
C11_HasMovedPosition ==
    (Returned /\ call.a1.Flight # <<>> /\ call.a1.Flight = call.a2.Flight) =>
        /\ ret.err = FALSE
        /\ ret.moved = PositionDiffers(call.a1, call.a2)
        /\ \A b \in OtherFieldChanged(call.a2) : HasMoved(call.a1, b) = ret
        /\ \A b \in OtherFieldChanged(call.a1) : HasMoved(b, call.a2) = ret

\* C11 witness: HasMoved has returned true for two records of one aircraft
\* that differ in the track alone among the compared fields, and in Seen.
C11_Witness ==
    /\ Returned
    /\ call.a1.Flight = <<"A">> /\ call.a2.Flight = <<"A">>
    /\ call.a1.Track # call.a2.Track
    /\ [call.a1 EXCEPT !.Track = 0, !.Seen = 0] = [call.a2 EXCEPT !.Track = 0, !.Seen = 0]
    /\ call.a1.Seen # call.a2.Seen
    /\ ret.moved = TRUE

\* C12: HasMoved returns an error, and false, whenever the Flight of either
\* record is empty or the two Flights differ, whatever the positions are.
C12_HasMovedIdentityError ==
    (Returned /\ (call.a1.Flight = <<>> \/ call.a2.Flight = <<>>
                  \/ call.a1.Flight # call.a2.Flight)) =>
        (ret.err = TRUE /\ ret.moved = FALSE)

\* C12 witness: HasMoved has returned an error for records of two different
\* aircraft whose positions differ.
C12_Witness ==
    /\ Returned
    /\ call.a1.Flight = <<"A">> /\ call.a2.Flight = <<"B">>
    /\ PositionDiffers(call.a1, call.a2)
    /\ ret.err = TRUE

\* updateAircraft has returned.
UpdateReturned == call.fn = "updateAircraft" /\ ret # NoRet

\* The j-th record of the slice passes the admission test and no other
\* record of the slice has its identity.
SoleAdmitted(s, j) ==
    /\ ~Skipped(s[j])
    /\ \A i \in 1..Len(s) : TrimSpace(s[i].Flight) = TrimSpace(s[j].Flight) => i = j

\* C13: merging an admitted record whose identity is not in the store
\* inserts an entry holding the normalized record with modified = true,
\* although HasMoved returns an error for the missing counterpart.
C13_InsertNew ==
    UpdateReturned =>
        \A j \in 1..Len(call.s) :
            LET a == Normalize(call.s[j])
            IN  (SoleAdmitted(call.s, j) /\ a.Flight \notin DOMAIN call.store) =>
                    /\ HasMoved(a, Lookup(call.store, a.Flight).a2.aircraft).err = TRUE
                    /\ a.Flight \in DOMAIN store
                    /\ store[a.Flight] = [modified |-> TRUE, aircraft |-> a]

\* C13 witness: updateAircraft has returned from a call with an empty store
\* and one admitted record, and the store holds a modified entry for it.
C13_Witness ==
    /\ UpdateReturned
    /\ call.store = EmptyMap
    /\ Len(call.s) = 1 /\ ~Skipped(call.s[1]) /\ call.s[1].Flight = <<"A", SP>>
    /\ DOMAIN store = {<<"A">>}
    /\ store[<<"A">>].modified = TRUE

\* C14: merging a record whose identity is stored and for which HasMoved
\* reports no change, or an error, leaves the entry as it was: the stored
\* record with its Seen and Timestamp, and the modified flag.
C14_NoOpMerge ==
    UpdateReturned =>
        \A j \in 1..Len(call.s) :
            LET a == Normalize(call.s[j])
            IN  (/\ SoleAdmitted(call.s, j)
                 /\ a.Flight \in DOMAIN call.store
                 /\ ~HasMoved(a, call.store[a.Flight].aircraft).moved) =>
                    /\ a.Flight \in DOMAIN store
                    /\ store[a.Flight] = call.store[a.Flight]

\* C14 witness: updateAircraft has returned from a call whose record has
\* the position of an unmodified stored entry and another Seen, and the
\* store is as it was.
C14_Witness ==
    /\ UpdateReturned
    /\ Len(call.s) = 1 /\ ~Skipped(call.s[1]) /\ call.s[1].Flight = <<"A", SP>>
    /\ <<"A">> \in DOMAIN call.store
    /\ call.store[<<"A">>].modified = FALSE
    /\ call.store[<<"A">>].aircraft.Lat = call.s[1].Lat
    /\ call.store[<<"A">>].aircraft.Lon = call.s[1].Lon
    /\ call.store[<<"A">>].aircraft.Seen # call.s[1].Seen
    /\ store = call.store

\* C15: merging a record whose identity is stored and for which HasMoved
\* reports a change replaces the stored record by the normalized record of
\* the snapshot and sets modified, whatever the flag was.
C15_ReplaceMoved ==
    UpdateReturned =>
        \A j \in 1..Len(call.s) :
            LET a == Normalize(call.s[j])
            IN  (/\ SoleAdmitted(call.s, j)
                 /\ a.Flight \in DOMAIN call.store
                 /\ HasMoved(a, call.store[a.Flight].aircraft).moved) =>
                    /\ a.Flight \in DOMAIN store
                    /\ store[a.Flight] = [modified |-> TRUE, aircraft |-> a]

\* C15 witness: updateAircraft has returned from a call whose record has
\* another latitude than an unmodified stored entry, and the entry now
\* holds the record and is modified.
C15_Witness ==
    /\ UpdateReturned
    /\ Len(call.s) = 1 /\ ~Skipped(call.s[1]) /\ call.s[1].Flight = <<"A", SP>>
    /\ <<"A">> \in DOMAIN call.store
    /\ call.store[<<"A">>].modified = FALSE
    /\ call.store[<<"A">>].aircraft.Lat # call.s[1].Lat
    /\ store[<<"A">>] = [modified |-> TRUE, aircraft |-> Normalize(call.s[1])]

\* C16: at-least-once delivery.  When an entry stays in the store from some
\* point on (a replacement of its record resets pubStat), the process keeps
\* running and cancellation is never signalled, the sink accepts the stored
\* record after that point.
C16_AtLeastOnce ==
    \A k \in Keys :
        (<>[](k \in DOMAIN store) /\ []~cancelled /\ []~crashed)
            => []<>(pubStat[k] = "ok")

\* C16 witness: the sink has accepted the record of a stored entry, and the
\* updater has completed that tick.
C16_Witness ==
    /\ ~cancelled /\ ~crashed
    /\ ppc = "idle" /\ ipc = "idle"
    /\ <<"A">> \in DOMAIN store
    /\ pubStat[<<"A">>] = "ok"

\* C17: startMonitor called with nil returns an error and starts no
\* goroutine: the monitor never leaves its initial state, whatever happens
\* to the file.
C17_NilStore ==
    (call.fn = "startMonitor" /\ call.store = "nil") =>
        /\ ret # NoRet => ret.err = TRUE
        /\ ipc = "unstarted"
        /\ store = EmptyMap
        /\ lastModified = StartTime
        /\ scan = <<>>

\* C17 witness: startMonitor has returned its error for nil, and a file
\* newer than the watermark is there, which no tick reads.
C17_Witness ==
    /\ call.fn = "startMonitor" /\ call.store = "nil"
    /\ ret # NoRet /\ ret.err = TRUE
    /\ fileExists /\ fileMod > lastModified
    /\ ipc = "unstarted"

\* startMonitor returns nil for a store, whether or not the file exists.
StartedWithoutError ==
    (call.fn = "startMonitor" /\ call.store = "store" /\ ret # NoRet) => ret.err = FALSE

\* While the file cannot be stat'ed the store and the watermark do not
\* change, and the monitor goes on waiting in its select (or returns on
\* cancellation).
StatFailureSkips ==
    (~fileExists /\ ipc = "idle") =>
        /\ store' = store
        /\ lastModified' = lastModified
        /\ ipc' \in {"idle", "stopped"}
        /\ ipc' = "stopped" => cancelled

StoppedStays ==
    /\ ipc' = "stopped" => ipc \in {"idle", "stopped"}
    /\ ppc' = "stopped" => ppc \in {"idle", "stopped"}
    /\ ipc = "stopped" => (ipc' = "stopped" /\ store' = store)
    /\ ppc = "stopped" => (ppc' = "stopped" /\ ~PublishStep)

\* A loop takes a tick from its select.
TickStart ==
    \/ ipc = "idle" /\ ipc' = "merge"
    \/ ppc = "idle" /\ ppc' = "scan"

\* C19, as amended: after cancellation is signalled each loop eventually
\* returns (or the process has ended), it returns only from its select, so
\* the tick in progress is completed, and once it has returned it neither
\* changes the store nor publishes.  Ticks that are ready together with
\* ctx.Done() may still be taken before the loop returns.
C19_StopsAfterCancel ==
    /\ cancelled ~> (ipc = "stopped" \/ crashed)
    /\ cancelled ~> (ppc = "stopped" \/ crashed)
    /\ [][StoppedStays]_vars

\* C19 witness: cancellation was signalled and both loops have returned,
\* leaving the store with the entries it held.
C19_Witness ==
    /\ cancelled /\ ~crashed
    /\ ipc = "stopped" /\ ppc = "stopped"
    /\ store # EmptyMap

\* C19, as stated: in addition, after cancellation is signalled a loop
\* does at most the rest of the tick it is processing, so it takes no
\* further tick from its select.
C19_StopsWithinTick ==
    /\ cancelled ~> (ipc = "stopped" \/ crashed)
    /\ cancelled ~> (ppc = "stopped" \/ crashed)
    /\ [][StoppedStays /\ (cancelled => ~TickStart)]_vars

\* C20: no failure inside a loop stops it: a loop has stopped, by its
\* return or by the end of the process, only if cancellation was signalled.
C20_StopsOnlyOnCancel ==
    (ipc = "stopped" \/ ppc = "stopped" \/ crashed) => cancelled

----------------------------------------------------------------------------
(* Identity of the store's entries *)

\* Every entry is stored under its record's Flight.
KeyedByFlight == \A k \in DOMAIN store : store[k].aircraft.Flight = k

\* An entry that stays in the store keeps its record's Flight.
FlightKept ==
    \A k \in DOMAIN store \cap DOMAIN store' :
        store'[k].aircraft.Flight = store[k].aircraft.Flight

\* C21: in every reachable state each entry's record has the Flight that is
\* the key it is stored under, and no step changes the Flight of an entry
\* that exists before and after it.
C21_IdentityIsKey == [](KeyedByFlight) /\ [][FlightKept]_vars

\* A cycle has ended that left an entry stored under the trimmed Flight of
\* the record it read.
C21_Witness ==
    /\ <<"A">> \in DOMAIN store
    /\ store[<<"A">>].aircraft.Flight = <<"A">>
    /\ store[<<"A">>].aircraft.Lat = 2
    /\ lastModified = MaxTime
    /\ ipc = "idle"

----------------------------------------------------------------------------
(* main.go, LookupEnvOrDur called directly, as TestLookupEnvOrDur does.     *)
(* Strings are sequences of characters; durations are counted in            *)
(* milliseconds.                                                            *)

MaxVal == 4

DigitChars == <<"0", "1", "2", "3", "4", "5", "6", "7", "8", "9">>
Digits == {DigitChars[i] : i \in 1..Len(DigitChars)}
DigitVal(c) == (CHOOSE i \in 1..Len(DigitChars) : DigitChars[i] = c) - 1

\* time.ParseDuration's units of a millisecond and more ("ns", "us" and
\* fractions are not part of the values below).
Units == {<<"m", "s">>, <<"s">>, <<"m">>, <<"h">>}
UnitValue(u) ==
    CASE u = <<"m", "s">> -> 1
      [] u = <<"s">> -> 1000
      [] u = <<"m">> -> 60000
      [] u = <<"h">> -> 3600000

\* The leading digits of s as a number, and what follows them.
RECURSIVE LeadingInt(_, _)
LeadingInt(s, acc) ==
    IF s # <<>> /\ Head(s) \in Digits
    THEN LeadingInt(Tail(s), acc * 10 + DigitVal(Head(s)))
    ELSE [v |-> acc, rest |-> s]

\* The length of the unit s starts with: up to the next digit or '.'.
RECURSIVE UnitLen(_)
UnitLen(s) ==
    IF s # <<>> /\ Head(s) \notin Digits \cup {"."} THEN 1 + UnitLen(Tail(s)) ELSE 0

ParseError == [dur |-> 0, err |-> TRUE]

\* time.ParseDuration's loop over the terms <number><unit>.
RECURSIVE ParseTerms(_, _)
ParseTerms(s, acc) ==
    IF s = <<>> THEN [dur |-> acc, err |-> FALSE]
    ELSE IF Head(s) \notin Digits THEN ParseError
    ELSE LET n == LeadingInt(s, 0)
             ul == UnitLen(n.rest)
             u == SubSeq(n.rest, 1, ul)
         IN  IF ul = 0 THEN ParseError
             ELSE IF u \notin Units THEN ParseError
             ELSE ParseTerms(SubSeq(n.rest, ul + 1, Len(n.rest)), acc + n.v * UnitValue(u))

\* dur, err := time.ParseDuration(val): an optional sign, then "0" alone or
\* one or more terms.
ParseDuration(val) ==
    LET signed == val # <<>> /\ Head(val) \in {"-", "+"}
        body == IF signed THEN Tail(val) ELSE val
        r == ParseTerms(body, 0)
    IN  IF body = <<"0">> THEN [dur |-> 0, err |-> FALSE]
        ELSE IF body = <<>> \/ r.err THEN ParseError
        ELSE [dur |-> IF signed /\ Head(val) = "-" THEN 0 - r.dur ELSE r.dur, err |-> FALSE]

\* A lookup that does not test err, for comparison.
LookupEnvOrDurNoErr(env, initial) ==
    IF env.ok THEN ParseDuration(env.val).dur ELSE initial

\* LookupEnvOrDur(key, initial), with env the result of os.LookupEnv(key)
LookupEnvOrDur(env, initial) ==
    IF env.ok
    THEN LET p == ParseDuration(env.val)
         IN  IF p.err THEN initial ELSE p.dur
    ELSE initial

\* time.Minute * 10 and time.Hour * 5
TenMinutes == 600000
FiveHours == 18000000

\* (time.Minute * 10).String() and the test's value that does not parse
TenMinutesString == <<"1", "0", "m", "0", "s">>
Invalid == <<"i", "n", "v", "a", "l", "i", "d">>

EnvChars == {"0", "1", "m", "s", "-"}

\* What os.LookupEnv can return: unset, or set to a value.
EnvValues ==
    UNION {[1..n -> EnvChars] : n \in 0..MaxVal} \cup {TenMinutesString, Invalid}
Envs == {[ok |-> FALSE, val |-> <<>>]} \cup {[ok |-> TRUE, val |-> x] : x \in EnvValues}

InitLookupEnvOrDur ==
    /\ store = EmptyMap
    /\ lock = "free"
    /\ ipc = "idle"
    /\ scanLen = 0
    /\ scan = <<>>
    /\ idx = 0
    /\ decErr = FALSE
    /\ ptodo = {}
    /\ lastModified = StartTime
    /\ ppc = "idle"
    /\ v = ZeroPos
    /\ todo = {}
    /\ maybe = {}
    /\ fileExists = FALSE
    /\ fileMod = 0
    /\ cancelled = FALSE
    /\ crashed = FALSE
    /\ pubStat = [k \in Keys |-> "none"]
    /\ sent = {}
    /\ call \in {[fn |-> "LookupEnvOrDur", env |-> e, initial |-> i] :
                    e \in Envs, i \in {TenMinutes, FiveHours}}
    /\ ret = NoRet

\* got := LookupEnvOrDur("TEST_DURATION_VAR", initial)
CallLookupEnvOrDur ==
    /\ call.fn = "LookupEnvOrDur"
    /\ ret = NoRet
    /\ ret' = [dur |-> LookupEnvOrDur(call.env, call.initial)]
    /\ UNCHANGED <<store, lock, ingestVars, updaterVars, envVars, crashed, pubStat, sent, call>>

NextLookupEnvOrDur == CallLookupEnvOrDur

SpecLookupEnvOrDur == InitLookupEnvOrDur /\ [][NextLookupEnvOrDur]_vars

\* The value parses as a duration: a sign at most, then "0" or terms of
\* digits followed by a unit.
RECURSIVE WellFormed(_)
WellFormed(s) ==
    \/ s = <<>>
    \/ \E i \in 1..Len(s), j \in 1..Len(s) :
        /\ i < j
        /\ \A x \in 1..i : s[x] \in Digits
        /\ SubSeq(s, i + 1, j) \in Units
        /\ j < Len(s) => s[j + 1] \in Digits
        /\ WellFormed(SubSeq(s, j + 1, Len(s)))

Parses(val) ==
    LET body == IF val # <<>> /\ Head(val) \in {"-", "+"} THEN Tail(val) ELSE val
    IN  body = <<"0">> \/ (body # <<>> /\ WellFormed(body))

LookupReturned == call.fn = "LookupEnvOrDur" /\ ret # NoRet

\* C22: LookupEnvOrDur returns the duration the variable's value stands for
\* when the variable is set and the value parses as a duration (ten minutes
\* for "10m0s", as the test expects), and the initial duration when the
\* variable is unset or the value does not parse.
C22_LookupEnvOrDur ==
    LookupReturned =>
        /\ call.env.ok /\ Parses(call.env.val)
            => ret.dur = ParseDuration(call.env.val).dur /\ ~ParseDuration(call.env.val).err
        /\ call.env = [ok |-> TRUE, val |-> TenMinutesString] => ret.dur = TenMinutes
        /\ ~call.env.ok \/ ~Parses(call.env.val) => ret.dur = call.initial

\* The test's "envvar" case: the variable holds "10m0s", the initial
\* duration is five hours and ten minutes are returned.
C22_Witness ==
    /\ LookupReturned
    /\ call.env = [ok |-> TRUE, val |-> TenMinutesString]
    /\ call.initial = FiveHours
    /\ ret.dur = TenMinutes

----------------------------------------------------------------------------
(* A replacement between the updater's read and its clear *)

\* The updater holds the copy v of the entry for k and the lock, and
\* updateAircraft has replaced the stored record since the copy was made.
ReplacedSinceRead(k) ==
    /\ ppc = "publish"
    /\ v.aircraft.Flight = k
    /\ k \in DOMAIN store
    /\ store[k].aircraft # v.aircraft

\* The clear that follows leaves the entry modified and the newer record stored.
DirtyAfterClear ==
    \A k \in Keys :
        (ReplacedSinceRead(k) /\ PublishStep)
            => (k \in DOMAIN store' /\ store'[k].modified = TRUE
                /\ store'[k].aircraft = store[k].aircraft)

\* C23: when updateAircraft has replaced an entry's record after the
\* updater's range read the entry and before the updater clears the flag,
\* the entry is modified after the clear and holds the newer record, and the
\* sink later accepts the stored record of that entry unless the entry is
\* removed, cancellation is signalled or the process ends first.
C23_ReplacedDuringPublish ==
    /\ [][DirtyAfterClear]_vars
    /\ \A k \in Keys :
        ReplacedSinceRead(k)
            ~> (pubStat[k] = "ok" \/ k \notin DOMAIN store \/ cancelled \/ crashed)

\* The updater is about to publish and clear for "A" from a copy that
\* updateAircraft has replaced in the store meanwhile.
C23_Witness ==
    /\ ReplacedSinceRead(<<"A">>)
    /\ store[<<"A">>].modified = TRUE
    /\ ~cancelled /\ ~crashed

----------------------------------------------------------------------------
(* One ingest cycle called directly: updateAircraft and then purgeAircraft  *)
(* on the same Scan, as startMonitor does after a decode and as             *)
(* TestPurgeAircraft does for the purge.  No other goroutine runs.          *)

\* Flights as a snapshot can carry them: empty, bare and padded.
CycleFlights == {<<>>, <<"A">>, <<"A", SP>>}

\* A timestamp that the source supplied: some non-zero time other than Now.
SourceTime == 3

CycleRecords ==
    {[ZeroAircraft EXCEPT !.Flight = f, !.Lat = la, !.Lon = MaxLon, !.Seen = se,
                          !.Timestamp = ts] :
        f \in CycleFlights, la \in 0..1, se \in {MaxAge, MaxAge + 1, MaxSeen},
        ts \in {0, SourceTime}}

CycleScans == UNION {[1..n -> CycleRecords] : n \in 0..MaxScan}

\* A purge that clears the flag of the entries it keeps, for comparison.
purgeAircraftClearing(m, s, maxAge) ==
    [k \in {x \in DOMAIN m : ~Purged(x, m[x], SeenSet(s), maxAge)} |->
        [m[k] EXCEPT !.modified = FALSE]]

\* The store after purgeAircraft(s, store, maxAge).
purgeAircraft(m, s, maxAge) ==
    [k \in {x \in DOMAIN m : ~Purged(x, m[x], SeenSet(s), maxAge)} |-> m[k]]

InitIngestCycle ==
    /\ store \in CallStores
    /\ lock = "free"
    /\ ipc = "idle"
    /\ scanLen = 0
    /\ scan = <<>>
    /\ idx = 0
    /\ decErr = FALSE
    /\ ptodo = {}
    /\ lastModified = StartTime
    /\ ppc = "idle"
    /\ v = ZeroPos
    /\ todo = {}
    /\ maybe = {}
    /\ fileExists = FALSE
    /\ fileMod = 0
    /\ cancelled = FALSE
    /\ crashed = FALSE
    /\ pubStat = [k \in Keys |-> "none"]
    /\ sent = {}
    /\ call \in {[fn |-> "cycle", s |-> x, store |-> store] : x \in CycleScans}
    /\ ret = NoRet

\* updateAircraft(scan, store, station): the Scan's slice is normalized in
\* place, and merged is the store as the call leaves it.
CallCycleMerge ==
    /\ call.fn = "cycle"
    /\ ret = NoRet
    /\ store' = updateAircraft(store, call.s)
    /\ ret' = [at |-> "merged", s |-> SliceAfter(call.s),
               merged |-> updateAircraft(store, call.s)]
    /\ UNCHANGED <<lock, ingestVars, updaterVars, envVars, crashed, pubStat, sent, call>>

\* purgeAircraft(scan, store, maxAge)
CallCyclePurge ==
    /\ call.fn = "cycle"
    /\ ret # NoRet /\ ret.at = "merged"
    /\ store' = purgeAircraft(store, ret.s, MaxAge)
    /\ ret' = [ret EXCEPT !.at = "purged"]
    /\ UNCHANGED <<lock, ingestVars, updaterVars, envVars, crashed, pubStat, sent, call>>

NextIngestCycle == CallCycleMerge \/ CallCyclePurge

SpecIngestCycle == InitIngestCycle /\ [][NextIngestCycle]_vars

CycleReturned == call.fn = "cycle" /\ ret # NoRet /\ ret.at = "purged"

\* The identity k occurs in the snapshot s, and only in records that fail
\* updateAircraft's admission test.
OnlyInSkipped(k, s) ==
    /\ \E j \in 1..Len(s) : TrimSpace(s[j].Flight) = k
    /\ \A j \in 1..Len(s) : TrimSpace(s[j].Flight) = k => Skipped(s[j])

\* C24: records that fail admission do not count as present for the purge.
\* After a cycle, no entry is stored whose (non-empty) identity occurs in
\* the snapshot only in records that updateAircraft skipped.
C24_SkippedNotPresent ==
    CycleReturned =>
        \A k \in DOMAIN call.store :
            (k # <<>> /\ OnlyInSkipped(k, call.s)) => k \notin DOMAIN store

\* The identity k occurs in the snapshot s.
OccursIn(k, s) == \E j \in 1..Len(s) : TrimSpace(s[j].Flight) = k

\* C25: purgeAircraft keeps every entry whose identity occurs in the
\* snapshot's record list, in a record that updateAircraft skipped
\* included, and whose Seen, as stored when the purge runs, does not exceed
\* maxAge (an age equal to maxAge is kept).
C25_PresentAndFreshKept ==
    CycleReturned =>
        \A k \in DOMAIN ret.merged :
            (OccursIn(k, call.s) /\ ret.merged[k].aircraft.Seen <= MaxAge)
                => k \in DOMAIN store

----------------------------------------------------------------------------
(* The watermark *)

\* The monitor waits in its select and the file is not newer than the watermark.
NotNewer == ipc = "idle" /\ fileExists /\ ~(fileMod > lastModified)

\* From there the monitor does not read or decode (it stays in the select
\* or returns on cancellation), and nothing of the cycle, the watermark or
\* the store changes.
TickDoesNothing ==
    NotNewer =>
        /\ ipc' \in {"idle", "stopped"}
        /\ <<scanLen, scan, idx, decErr, ptodo, lastModified>>'
                = <<scanLen, scan, idx, decErr, ptodo, lastModified>>
        /\ store' = store

\* The monitor is inside a cycle, or has completed one that stored something.
Ingested == ipc \in {"merge", "lock", "write", "purge"} \/ store # EmptyMap

\* The watermark is never earlier than the monitor's start (MaxTime - 1 in
\* InitLate), and whatever is ingested comes from a file modified after it.
AfterStartOnly ==
    /\ lastModified >= MaxTime - 1
    /\ Ingested => (fileMod > MaxTime - 1 /\ lastModified = fileMod)

\* C26: on a tick that finds the file not newer than the watermark nothing
\* happens: no read, no merge, no purge, and the store and the watermark
\* stay as they are.  The watermark starts at the monitor's start time, so
\* a snapshot written before the start is not ingested until it is
\* modified again.
C26_UnchangedTick == [][TickDoesNothing]_vars /\ [](AfterStartOnly)

\* The file was written last at the monitor's start time, the updater has
\* had a tick since, and the monitor has ingested nothing.
C26_Witness ==
    /\ NotNewer
    /\ fileMod = lastModified
    /\ lastModified = MaxTime - 1
    /\ ppc = "scan"
    /\ store = EmptyMap

\* The step in which the monitor opens and decodes the file.
ReadStep == ipc = "idle" /\ ipc' = "merge"

\* The file is read only when it is newer than the watermark, and the read
\* leaves the watermark at the file's modification time whether or not the
\* decode failed.
ReadAdvances == ReadStep => (fileMod > lastModified /\ lastModified' = fileMod)

\* A tick that finds a newer file reads it (unless the select takes the
\* cancellation instead).
NewerIsRead ==
    (ipc = "idle" /\ fileExists /\ fileMod > lastModified /\ ipc' # ipc)
        => (ipc' = "stopped" \/ (ipc' = "merge" /\ lastModified' = fileMod))

\* For the rest of a cycle whose decode failed the watermark is the file's
\* modification time: the next ticks find the file not newer.
FailedIsMarked == decErr => lastModified = fileMod

\* C27: every tick that finds a newer file advances the watermark to the
\* file's modification time, also when the decode fails, so a snapshot that
\* failed to decode is read again only after the file's modification time
\* has advanced past it.
C27_WatermarkAdvances ==
    [][ReadAdvances /\ NewerIsRead]_vars /\ [](FailedIsMarked)

\* The decode of the file written at MaxTime has failed; the watermark is at
\* MaxTime and the cycle is at the end of its purge.
C27_Witness ==
    /\ decErr
    /\ CycleDone
    /\ fileMod = MaxTime
    /\ lastModified = fileMod

----------------------------------------------------------------------------
(* What updateAircraft stores *)

\* The record is source record a as updateAircraft cleans it: Flight
\* trimmed, the station's name set, the source's Timestamp kept when it is
\* not zero and the ingest time otherwise, the position as decoded.
CleanedFrom(rec, a) ==
    /\ ~Skipped(a)
    /\ rec.Flight = TrimSpace(a.Flight)
    /\ TrimSpace(rec.Flight) = rec.Flight
    /\ rec.StationName = Station
    /\ a.Timestamp # 0 => rec.Timestamp = a.Timestamp
    /\ a.Timestamp = 0 => rec.Timestamp = Now
    /\ rec.Lat = a.Lat /\ rec.Lon = a.Lon /\ rec.Seen = a.Seen

\* updateAircraft has assigned the entry under k.
StoredByCall(k) ==
    /\ k \in DOMAIN ret.merged
    /\ k \in DOMAIN call.store => ret.merged[k] # call.store[k]

\* C28: every record that updateAircraft stores is a record of the
\* snapshot with its Flight trimmed, its StationName set to the configured
\* station and its Timestamp as the source supplied it when that is not
\* zero; the ingest time is stamped only on a record whose Timestamp is zero.
C28_StoredIsCleaned ==
    (call.fn = "cycle" /\ ret # NoRet) =>
        \A k \in Keys :
            StoredByCall(k) =>
                \E j \in 1..Len(call.s) : CleanedFrom(ret.merged[k].aircraft, call.s[j])

\* updateAircraft has replaced the entry for "A" with a padded record of the
\* snapshot that carried its own timestamp.
C28_Witness ==
    /\ call.fn = "cycle" /\ ret # NoRet /\ ret.at = "merged"
    /\ Len(call.s) = 1
    /\ call.s[1].Flight = <<"A", SP>>
    /\ call.s[1].Timestamp = SourceTime
    /\ <<"A">> \in DOMAIN call.store
    /\ StoredByCall(<<"A">>)
    /\ store[<<"A">>].aircraft.Timestamp = SourceTime
    /\ store[<<"A">>].aircraft.Flight = <<"A">>

----------------------------------------------------------------------------
(* One tick of the updater *)

\* An entry that the range produces goes on to Publish, as the one record
\* of its message, exactly when it is modified.
DirtyIsPublished ==
    \A k \in Keys :
        Produced(k) =>
            IF store[k].modified THEN ppc' = "lock" /\ v' = store[k]
            ELSE ppc' = "scan" /\ v' = ZeroPos

\* What is handed to the sink is an entry that was modified when the range
\* produced it, under a Flight not yet handed over in this tick.
PublishedOnce == PublishStep => (v.modified = TRUE /\ v.aircraft.Flight \notin sent)

\* C29: within one tick of the updater each entry that is modified when the
\* range produces it is handed to the sink as a message of its own with that
\* one record, no Flight is handed over more than once in the tick, and
\* entries that are not modified are not handed over.
C29_OncePerTick == [][DirtyIsPublished /\ PublishedOnce]_vars

----------------------------------------------------------------------------
(* Who writes what *)

\* The step in which the monitor assigns to the map or deletes from it.
MonitorWrites == (ipc = "write" /\ ipc' = "merge") \/ (ipc = "purge" /\ ptodo' # ptodo)

\* Only the monitor's steps insert or remove an entry or change a stored
\* record: no step of the updater does.
OnlyMonitorWritesRecords ==
    (\/ DOMAIN store' # DOMAIN store
     \/ \E k \in DOMAIN store \cap DOMAIN store' : store'[k].aircraft # store[k].aircraft)
        => MonitorWrites

\* The monitor stores entries with the flag set, and a flag changes
\* otherwise only for the entry that the updater has just published: in no
\* step of the monitor does a flag become false.
OnlyUpdaterClears ==
    /\ \A k \in DOMAIN store' \ DOMAIN store : store'[k].modified = TRUE
    /\ \A k \in DOMAIN store \cap DOMAIN store' :
        store'[k].modified # store[k].modified
            => \/ PublishStep /\ k = v.aircraft.Flight
               \/ MonitorWrites /\ store'[k].modified = TRUE

\* C30: the updater never inserts or removes an entry and never changes a
\* stored record (whether Publish succeeds or fails it changes at most the
\* modified flag of the entry it published), and the monitor never sets a
\* modified flag to false.
C30_RoleSeparation == [][OnlyMonitorWritesRecords /\ OnlyUpdaterClears]_vars

\* The updater's Publish for "A" has failed in the tick under way, and the
\* entry is stored with the record that the monitor wrote.
C30_Witness ==
    /\ <<"A">> \in DOMAIN store
    /\ <<"A">> \in sent
    /\ pubStat[<<"A">>] = "fail"
    /\ store[<<"A">>].aircraft.StationName = Station
    /\ ppc = "scan"

----------------------------------------------------------------------------
(* The store after one cycle *)

\* The records of snapshot s that updateAircraft admits under identity k.
AdmittedFor(k, s) == {j \in 1..Len(s) : ~Skipped(s[j]) /\ TrimSpace(s[j].Flight) = k}

\* The fields that HasMoved compares.
Position(a) == <<a.Lat, a.Lon, a.AltGeom, a.AltBaro, a.Track>>

\* Record a as updateAircraft stores it.
Upserted(a) == [modified |-> TRUE, aircraft |-> Normalize(a)]

\* The entry under k after the merge: as before when the snapshot admits no
\* record for k; for a sole record the cleaned record, modified, when k is
\* new or HasMoved reports a move, and the entry as before otherwise; with
\* several records one of these, at the position of the last of them.
MergedAsSpecified(k, old, new, s) ==
    LET J == AdmittedFor(k, s)
    IN  /\ J = {} => (k \in DOMAIN new <=> k \in DOMAIN old)
        /\ (J = {} /\ k \in DOMAIN old) => new[k] = old[k]
        /\ J # {} =>
            /\ k \in DOMAIN new
            /\ \/ k \in DOMAIN old /\ new[k] = old[k]
               \/ \E j \in J : new[k] = Upserted(s[j])
            /\ \E j \in J :
                /\ \A i \in J : i <= j
                /\ Position(new[k].aircraft) = Position(s[j])
        /\ \A j \in J :
            J = {j} =>
                new[k] = IF k \in DOMAIN old
                            /\ ~HasMoved(Normalize(s[j]), old[k].aircraft).moved
                         THEN old[k] ELSE Upserted(s[j])

\* Merge removes nothing.
MergeKeepsEntries == DOMAIN call.store \subseteq DOMAIN ret.merged

\* Purge inserts nothing, leaves the entries it keeps as they were, and
\* removes only entries that are absent from the slice or too old.
PurgeOnlyRemoves ==
    /\ DOMAIN store \subseteq DOMAIN ret.merged
    /\ \A k \in DOMAIN store : store[k] = ret.merged[k]
    /\ \A k \in DOMAIN ret.merged \ DOMAIN store :
        Purged(k, ret.merged[k], SeenSet(ret.s), MaxAge)

----------------------------------------------------------------------------
(* The lock *)

\* The lock is held exactly by a goroutine that is between its Lock and its
\* Unlock, where its next step is the one that unlocks.
HeldInsideOnly ==
    /\ lock = "monitor" <=> ipc = "write"
    /\ lock = "updater" <=> ppc = "publish"

\* A goroutine that is at its Lock does not hold the lock.
NoRelock ==
    /\ ipc = "lock" => lock # "monitor"
    /\ ppc = "lock" => lock # "updater"

\* C32: every path that takes the store's lock releases it and neither
\* goroutine calls Lock while it holds the lock, so, with a Publish that
\* returns, a goroutine that waits at Lock gets past it, unless the process
\* ends first.
C32_NoDeadlock ==
    /\ [](HeldInsideOnly /\ NoRelock)
    /\ (ipc = "lock") ~> (ipc # "lock" \/ crashed)
    /\ (ppc = "lock") ~> (ppc # "lock" \/ crashed)

\* The monitor waits at Lock while the updater holds the lock for a Publish.
C32_Witness ==
    /\ ipc = "lock"
    /\ ppc = "publish"
    /\ lock = "updater"
    /\ ~crashed

====
